---- MODULE Spec2Model ----
(***************************************************************************)
(* A model of two files of the noir compiler:                              *)
(*                                                                         *)
(*   crates/noirc_evaluator/src/brillig/brillig_ir/debug_show.rs           *)
(*       the Brillig debug disassembler: one function per instruction,     *)
(*       each printing one line of trace through debug_println!;           *)
(*   crates/nargo_cli/src/cli/test_cmd.rs                                  *)
(*       run_tests / run_test, the loop of the `nargo test` command.       *)
(*                                                                         *)
(* Strings are TLA+ strings, built with \o exactly as format! builds them. *)
(***************************************************************************)
EXTENDS Integers, Sequences, FiniteSets, TLC

VARIABLES
    ENABLE_DEBUG_TRACE, \* debug_show.rs:10, the compile-time trace switch
    todo,               \* the disassembler calls the code generator still makes
    calls,              \* the calls made so far, each with what it rendered
    out,                \* the lines that reached the trace stream (stdout)
    panicked,           \* the process aborted inside a disassembler call
    operands,           \* a pair of RegisterOrMemory values to render
    tokens,             \* their renderings, once rendered
    binop,              \* a BrilligBinaryOp to render
    optoken,            \* its rendering, once rendered
    pc,                 \* run_tests: where the function stands
    test_functions,     \* run_tests: the matching test functions, in order
    outcomes,           \* what run_test does for each test function
    next_test,          \* run_tests: index of the loop's next test function
    failing,            \* run_tests: the failing counter
    ran,                \* the run_test calls made so far, with their results
    writer,             \* the lines written to stderr
    result              \* what run_tests returned, once it has

dvars == <<ENABLE_DEBUG_TRACE, todo, calls, out, panicked>>
ovars == <<operands, tokens>>
bvars == <<binop, optoken>>
tvars == <<pc, test_functions, outcomes, next_test, failing, ran, writer, result>>
vars == <<dvars, ovars, bvars, tvars>>

----------------------------------------------------------------------------
(* Bounds of the model.                                                    *)

MaxReg == 1        \* registers are 0..MaxReg
MaxSize == 1       \* static HeapArray sizes and immediate values are 0..MaxSize
MaxList == 2       \* return lists hold up to MaxList registers
MaxBitSize == 65   \* bit sizes of a rendered BrilligBinaryOp are 0..MaxBitSize
MaxCalls == 2      \* a traced instruction stream holds up to MaxCalls calls
MaxTests == 3      \* run_tests finds up to MaxTests matching test functions

----------------------------------------------------------------------------
(* Program constants that live outside the two files.                      *)

\* brillig_ir.rs; debug_show.rs:88 documents the value (">= 64 bits")
BRILLIG_MEMORY_ADDRESSING_BIT_SIZE == 64

\* ReservedRegisters::stack_pointer(): the one reserved register index
stack_pointer == 0

----------------------------------------------------------------------------
(* Rendering: the DebugToString implementations, debug_show.rs:12-128.     *)

RECURSIVE to_string(_)
\* usize / u32 Display: decimal digits, no padding
to_string(n) ==
    IF n < 10 THEN SubSeq("0123456789", n + 1, n + 1)
    ELSE to_string(n \div 10) \o SubSeq("0123456789", (n % 10) + 1, (n % 10) + 1)

ends_with(s, suffix) ==
    /\ Len(s) >= Len(suffix)
    /\ SubSeq(s, Len(s) - Len(suffix) + 1, Len(s)) = suffix

RECURSIVE join(_, _)
\* Vec<String>::join(sep)
join(strs, sep) ==
    IF Len(strs) = 0 THEN ""
    ELSE IF Len(strs) = 1 THEN strs[1]
    ELSE strs[1] \o sep \o join(Tail(strs), sep)

\* the stack pointer is rendered like any other register
RegisterIndex_always_R(r) == "R" \o to_string(r)

RegisterIndex_debug_to_string(r) ==
    IF r = stack_pointer THEN "Stack" ELSE "R" \o to_string(r)

HeapArray_debug_to_string(a) ==
    RegisterIndex_debug_to_string(a.pointer) \o "[0.." \o to_string(a.size) \o "]"

\* the size register is rendered as its bare index
HeapVector_size_as_number(v) ==
    RegisterIndex_debug_to_string(v.pointer) \o "[0.." \o to_string(v.size) \o "]"

HeapVector_debug_to_string(v) ==
    RegisterIndex_debug_to_string(v.pointer) \o "[0.."
        \o RegisterIndex_debug_to_string(v.size) \o "]"

BinaryFieldOp_debug_to_string(op) ==
    CASE op = "Add" -> "f+"
      [] op = "Sub" -> "f-"
      [] op = "Mul" -> "f*"
      [] op = "Div" -> "f/"
      [] op = "Equals" -> "f=="

BinaryIntOp_debug_to_string(op) ==
    CASE op = "Add" -> "+"
      [] op = "Sub" -> "-"
      [] op = "Mul" -> "*"
      [] op = "Equals" -> "=="
      [] op = "SignedDiv" -> "/"
      [] op = "UnsignedDiv" -> "//"
      [] op = "LessThan" -> "<"
      [] op = "LessThanEquals" -> "<="
      [] op = "And" -> "&&"
      [] op = "Or" -> "||"
      [] op = "Xor" -> "^"
      [] op = "Shl" -> "<<"
      [] op = "Shr" -> ">>"

\* the width is elided only strictly above the addressing bit size
BrilligBinaryOp_strictly_above(o) ==
    CASE o.kind = "Field" -> BinaryFieldOp_debug_to_string(o.op)
      [] o.kind = "Integer" ->
            IF o.bit_size > BRILLIG_MEMORY_ADDRESSING_BIT_SIZE
            THEN BinaryIntOp_debug_to_string(o.op)
            ELSE "i" \o to_string(o.bit_size) \o "::" \o BinaryIntOp_debug_to_string(o.op)
      [] o.kind = "Modulo" ->
            LET op == IF o.is_signed_integer THEN "%" ELSE "%%"
            IN  IF o.bit_size > BRILLIG_MEMORY_ADDRESSING_BIT_SIZE
                THEN op
                ELSE op \o ":" \o to_string(o.bit_size)

BrilligBinaryOp_debug_to_string(o) ==
    CASE o.kind = "Field" -> BinaryFieldOp_debug_to_string(o.op)
      [] o.kind = "Integer" ->
            IF o.bit_size >= BRILLIG_MEMORY_ADDRESSING_BIT_SIZE
            THEN BinaryIntOp_debug_to_string(o.op)
            ELSE "i" \o to_string(o.bit_size) \o "::" \o BinaryIntOp_debug_to_string(o.op)
      [] o.kind = "Modulo" ->
            LET op == IF o.is_signed_integer THEN "%" ELSE "%%"
            IN  IF o.bit_size >= BRILLIG_MEMORY_ADDRESSING_BIT_SIZE
                THEN op
                ELSE op \o ":" \o to_string(o.bit_size)

Value_debug_to_string(v) == to_string(v)

RegisterOrMemory_debug_to_string(m) ==
    CASE m.kind = "RegisterIndex" -> RegisterIndex_debug_to_string(m.index)
      [] m.kind = "HeapArray" -> HeapArray_debug_to_string(m)
      [] m.kind = "HeapVector" -> HeapVector_debug_to_string(m)

\* impl DebugToString for [T], with T = RegisterOrMemory
slice_debug_to_string(xs) ==
    join([i \in DOMAIN xs |-> RegisterOrMemory_debug_to_string(xs[i])], ", ")

----------------------------------------------------------------------------
(* debug_println!, debug_show.rs:130-141.  What a disassembler function    *)
(* does is an effect: `text`, the lines it hands to println!, and          *)
(* `strings`, the number of String values it constructs on the way (each   *)
(* debug_to_string() / to_string() / join() call builds one).              *)

Eff(text, strings) == [text |-> text, strings |-> strings]

\* first arm: a literal, nothing to format
debug_println_literal(literal) ==
    IF ENABLE_DEBUG_TRACE THEN Eff(<<literal>>, 0) ELSE Eff(<<>>, 0)

\* second arm: `line` is the format string filled with the nargs arguments,
\* each rendered with debug_to_string() inside the `if`
debug_println(line, nargs) ==
    IF ENABLE_DEBUG_TRACE THEN Eff(<<line>>, nargs) ELSE Eff(<<>>, 0)

----------------------------------------------------------------------------
(* The disassembler functions, debug_show.rs:143-305.  The operand types   *)
(* of BlackBoxOp are those of acvm's brillig_vm: a message is a HeapVector,*)
(* a digest, key or signature a HeapArray, a scalar result a register.     *)

constrain_instruction(condition) ==
    debug_println("  ASSERT " \o RegisterIndex_debug_to_string(condition) \o " != 0", 1)

\* registers_string is built before the switch is consulted: one String per
\* register, and the joined one
return_instruction(return_registers) ==
    LET registers_string ==
            join([i \in DOMAIN return_registers |->
                      RegisterIndex_debug_to_string(return_registers[i])], ", ")
        built == Len(return_registers) + 1
        printed == debug_println("  // return " \o registers_string \o ";", 1)
    IN  Eff(printed.text, built + printed.strings)

mov_instruction(destination, source) ==
    debug_println("  MOV " \o RegisterIndex_debug_to_string(destination) \o ", "
                      \o RegisterIndex_debug_to_string(source), 2)

binary_instruction(lhs, rhs, res, operation) ==
    debug_println("  " \o RegisterIndex_debug_to_string(res) \o " = "
                      \o RegisterIndex_debug_to_string(lhs) \o " "
                      \o BrilligBinaryOp_debug_to_string(operation) \o " "
                      \o RegisterIndex_debug_to_string(rhs), 4)

const_instruction(res, constant) ==
    debug_println("  CONST " \o RegisterIndex_debug_to_string(res) \o " = "
                      \o Value_debug_to_string(constant), 2)

not_instruction(condition, bit_size, res) ==
    debug_println("  i" \o to_string(bit_size) \o "_NOT "
                      \o RegisterIndex_debug_to_string(res) \o " = !"
                      \o RegisterIndex_debug_to_string(condition), 3)

foreign_call_instruction(func_name, inputs, outputs) ==
    debug_println("  FOREIGN_CALL " \o func_name \o " ("
                      \o slice_debug_to_string(inputs) \o ") => "
                      \o slice_debug_to_string(outputs), 3)

load_instruction(destination, source_pointer) ==
    debug_println("  LOAD " \o RegisterIndex_debug_to_string(destination) \o " = *"
                      \o RegisterIndex_debug_to_string(source_pointer), 2)

store_instruction(destination_pointer, source) ==
    debug_println("  STORE *" \o RegisterIndex_debug_to_string(destination_pointer)
                      \o " = " \o RegisterIndex_debug_to_string(source), 2)

stop_instruction == debug_println_literal("  STOP")

allocate_array_instruction(pointer_register, size_register) ==
    debug_println("  ALLOCATE_ARRAY " \o RegisterIndex_debug_to_string(pointer_register)
                      \o " SIZE " \o RegisterIndex_debug_to_string(size_register), 2)

array_get(array_ptr, index, res) ==
    debug_println("  ARRAY_GET " \o RegisterIndex_debug_to_string(array_ptr) \o "["
                      \o RegisterIndex_debug_to_string(index) \o "] -> "
                      \o RegisterIndex_debug_to_string(res), 3)

array_set(array_ptr, index, value) ==
    debug_println("  ARRAY_SET " \o RegisterIndex_debug_to_string(array_ptr) \o "["
                      \o RegisterIndex_debug_to_string(index) \o "] = "
                      \o RegisterIndex_debug_to_string(value), 3)

copy_array_instruction(source, destination, num_elements_register) ==
    debug_println("  COPY_ARRAY " \o RegisterIndex_debug_to_string(source) \o " -> "
                      \o RegisterIndex_debug_to_string(destination) \o " ("
                      \o RegisterIndex_debug_to_string(num_elements_register)
                      \o " ELEMENTS)", 3)

\* every header is printed, "-b0" or not
enter_context_always(label) == debug_println(label \o ":", 1)

\* a "-b0" header is dropped only right after the header of its function
enter_context_after_header(label) ==
    LET function_label == SubSeq(label, 1, Len(label) - 3)
        just_emitted ==
            /\ calls # <<>>
            /\ calls[Len(calls)].call = [fn |-> "enter_context", args |-> <<function_label>>]
    IN  IF ends_with(label, "-b0") /\ just_emitted
        THEN Eff(<<>>, 0)
        ELSE debug_println(label \o ":", 1)

enter_context(label) ==
    IF ~ends_with(label, "-b0")
    THEN debug_println(label \o ":", 1)
    ELSE Eff(<<>>, 0)

jump_instruction(target_label) == debug_println("  JUMP_TO " \o target_label, 1)

\* target_label.to_string() is an argument of the macro: built inside the `if`
jump_if_instruction(condition, target_label) ==
    LET printed == debug_println("  JUMP_IF " \o RegisterIndex_debug_to_string(condition)
                                     \o " TO " \o target_label, 2)
    IN  Eff(printed.text, IF ENABLE_DEBUG_TRACE THEN printed.strings + 1 ELSE 0)

cast_instruction(destination, source, target_bit_size) ==
    debug_println("  CAST " \o RegisterIndex_debug_to_string(destination) \o " FROM "
                      \o RegisterIndex_debug_to_string(source) \o " TO "
                      \o to_string(target_bit_size) \o " BITS", 3)

black_box_op_instruction(op) ==
    CASE op.kind = "Sha256" ->
            debug_println("  SHA256 " \o HeapVector_debug_to_string(op.message) \o " -> "
                              \o HeapArray_debug_to_string(op.output), 2)
      [] op.kind = "Keccak256" ->
            debug_println("  KECCAK256 " \o HeapVector_debug_to_string(op.message) \o " -> "
                              \o HeapArray_debug_to_string(op.output), 2)
      [] op.kind = "Blake2s" ->
            debug_println("  BLAKE2S " \o HeapVector_debug_to_string(op.message) \o " -> "
                              \o HeapArray_debug_to_string(op.output), 2)
      [] op.kind = "HashToField128Security" ->
            debug_println("  HASH_TO_FIELD_128_SECURITY "
                              \o HeapVector_debug_to_string(op.message) \o " -> "
                              \o RegisterIndex_debug_to_string(op.output), 2)
      [] op.kind = "EcdsaSecp256k1" ->
            debug_println("  ECDSA_SECP256K1 "
                              \o HeapVector_debug_to_string(op.hashed_msg) \o " "
                              \o HeapArray_debug_to_string(op.public_key_x) \o " "
                              \o HeapArray_debug_to_string(op.public_key_y) \o " "
                              \o HeapArray_debug_to_string(op.signature) \o " -> "
                              \o RegisterIndex_debug_to_string(op.result), 5)

add_external_call_instruction(func_label) == debug_println("  CALL " \o func_label, 1)

----------------------------------------------------------------------------
(* The calls the code generator makes.  A call is [fn, args].              *)

Call(fn, args) == [fn |-> fn, args |-> args]

SeqsUpTo(S, n) == UNION {[1..k -> S] : k \in 0..n}

Registers == 0..MaxReg
Sizes == 0..MaxSize
InstrBitSizes == {8, BRILLIG_MEMORY_ADDRESSING_BIT_SIZE}
Labels == {"f1", "f1-b0", "g", "g-b0", "f1-b1"}
ForeignNames == {"println"}

Reg(r) == [kind |-> "RegisterIndex", index |-> r]
HeapArrays(regs, sizes) ==
    {[kind |-> "HeapArray", pointer |-> p, size |-> n] : p \in regs, n \in sizes}
HeapVectors(regs) ==
    {[kind |-> "HeapVector", pointer |-> p, size |-> n] : p \in regs, n \in regs}
RegisterOrMemories(regs, sizes) ==
    {Reg(r) : r \in regs} \cup HeapArrays(regs, sizes) \cup HeapVectors(regs)

BinaryFieldOps == {"Add", "Sub", "Mul", "Div", "Equals"}
BinaryIntOps ==
    {"Add", "Sub", "Mul", "Equals", "SignedDiv", "UnsignedDiv", "LessThan",
     "LessThanEquals", "And", "Or", "Xor", "Shl", "Shr"}
BrilligBinaryOps(fieldops, intops, bits) ==
    {[kind |-> "Field", op |-> op] : op \in fieldops}
    \cup {[kind |-> "Integer", op |-> op, bit_size |-> b] : op \in intops, b \in bits}
    \cup {[kind |-> "Modulo", is_signed_integer |-> sg, bit_size |-> b] :
              sg \in BOOLEAN, b \in bits}

BlackBoxOps(regs, sizes) ==
    {[kind |-> k, message |-> m, output |-> o] :
         k \in {"Sha256", "Keccak256", "Blake2s"},
         m \in HeapVectors(regs), o \in HeapArrays(regs, sizes)}
    \cup {[kind |-> "HashToField128Security", message |-> m, output |-> o] :
              m \in HeapVectors(regs), o \in regs}
    \cup {[kind |-> "EcdsaSecp256k1", hashed_msg |-> m, public_key_x |-> x,
           public_key_y |-> y, signature |-> sg, result |-> r] :
              m \in HeapVectors(regs), x \in HeapArrays(regs, sizes),
              y \in HeapArrays(regs, sizes), sg \in HeapArrays(regs, sizes), r \in regs}

\* every call of every disassembler function over the given operand domains;
\* a foreign call has up to nlist operands, inputs and outputs together
CallsOver(regs, sizes, bits, binops, labels, nlist) ==
    {Call("constrain_instruction", <<c>>) : c \in regs}
    \cup {Call("return_instruction", <<rs>>) : rs \in SeqsUpTo(regs, nlist)}
    \cup {Call("mov_instruction", <<d, s>>) : d \in regs, s \in regs}
    \cup {Call("binary_instruction", <<l, r, res, o>>) :
              l \in regs, r \in regs, res \in regs, o \in binops}
    \cup {Call("const_instruction", <<res, v>>) : res \in regs, v \in sizes}
    \cup {Call("not_instruction", <<c, b, res>>) : c \in regs, b \in bits, res \in regs}
    \cup UNION {{Call("foreign_call_instruction", <<f, ins, outs>>) :
                     f \in ForeignNames,
                     outs \in SeqsUpTo(RegisterOrMemories(regs, sizes), nlist - Len(ins))} :
                ins \in SeqsUpTo(RegisterOrMemories(regs, sizes), nlist)}
    \cup {Call("load_instruction", <<d, s>>) : d \in regs, s \in regs}
    \cup {Call("store_instruction", <<d, s>>) : d \in regs, s \in regs}
    \cup {Call("stop_instruction", <<>>)}
    \cup {Call("allocate_array_instruction", <<p, n>>) : p \in regs, n \in regs}
    \cup {Call("array_get", <<a, i, res>>) : a \in regs, i \in regs, res \in regs}
    \cup {Call("array_set", <<a, i, v>>) : a \in regs, i \in regs, v \in regs}
    \cup {Call("copy_array_instruction", <<s, d, n>>) : s \in regs, d \in regs, n \in regs}
    \cup {Call("enter_context", <<l>>) : l \in Labels}
    \cup {Call("jump_instruction", <<l>>) : l \in labels}
    \cup {Call("jump_if_instruction", <<c, l>>) : c \in regs, l \in labels}
    \cup {Call("cast_instruction", <<d, s, b>>) : d \in regs, s \in regs, b \in bits}
    \cup {Call("black_box_op_instruction", <<o>>) : o \in BlackBoxOps(regs, sizes)}
    \cup {Call("add_external_call_instruction", <<l>>) : l \in labels}

\* single calls, over every operand
Instructions ==
    CallsOver(Registers, Sizes, InstrBitSizes,
              BrilligBinaryOps(BinaryFieldOps, BinaryIntOps, InstrBitSizes),
              Labels, MaxList)

\* the calls of a stream: every function and every label, one general register
StreamInstructions ==
    CallsOver({1}, {1}, {8}, BrilligBinaryOps({"Div"}, {"UnsignedDiv"}, {8}), {"f1"}, 1)

\* what the call renders, in the current state
render(c) ==
    LET a == c.args
    IN  CASE c.fn = "constrain_instruction" -> constrain_instruction(a[1])
          [] c.fn = "return_instruction" -> return_instruction(a[1])
          [] c.fn = "mov_instruction" -> mov_instruction(a[1], a[2])
          [] c.fn = "binary_instruction" -> binary_instruction(a[1], a[2], a[3], a[4])
          [] c.fn = "const_instruction" -> const_instruction(a[1], a[2])
          [] c.fn = "not_instruction" -> not_instruction(a[1], a[2], a[3])
          [] c.fn = "foreign_call_instruction" -> foreign_call_instruction(a[1], a[2], a[3])
          [] c.fn = "load_instruction" -> load_instruction(a[1], a[2])
          [] c.fn = "store_instruction" -> store_instruction(a[1], a[2])
          [] c.fn = "stop_instruction" -> stop_instruction
          [] c.fn = "allocate_array_instruction" -> allocate_array_instruction(a[1], a[2])
          [] c.fn = "array_get" -> array_get(a[1], a[2], a[3])
          [] c.fn = "array_set" -> array_set(a[1], a[2], a[3])
          [] c.fn = "copy_array_instruction" -> copy_array_instruction(a[1], a[2], a[3])
          [] c.fn = "enter_context" -> enter_context(a[1])
          [] c.fn = "jump_instruction" -> jump_instruction(a[1])
          [] c.fn = "jump_if_instruction" -> jump_if_instruction(a[1], a[2])
          [] c.fn = "cast_instruction" -> cast_instruction(a[1], a[2], a[3])
          [] c.fn = "black_box_op_instruction" -> black_box_op_instruction(a[1])
          [] c.fn = "add_external_call_instruction" -> add_external_call_instruction(a[1])

----------------------------------------------------------------------------
(* One disassembler call.  println! writes the line to stdout and panics   *)
(* when the write fails ("failed printing to stdout"); a call that prints  *)
(* nothing writes nothing.  A panic ends the process.                      *)

\* the code generator's next call is a call of fn
Pending(fn) ==
    /\ ~panicked
    /\ todo # <<>>
    /\ Head(todo).fn = fn

\* the call's effect takes place
Emit(eff) ==
    /\ \E write \in (IF eff.text = <<>> THEN {"none"} ELSE {"ok", "failed"}) :
           /\ calls' = Append(calls, [call |-> Head(todo), text |-> eff.text,
                                      strings |-> eff.strings, write |-> write])
           /\ out' = IF write = "ok" THEN out \o eff.text ELSE out
           /\ panicked' = (write = "failed")
    /\ todo' = Tail(todo)
    /\ UNCHANGED <<ENABLE_DEBUG_TRACE, ovars, bvars, tvars>>

constrain_instruction_call ==
    /\ Pending("constrain_instruction")
    /\ LET a == Head(todo).args IN Emit(constrain_instruction(a[1]))

return_instruction_call ==
    /\ Pending("return_instruction")
    /\ LET a == Head(todo).args IN Emit(return_instruction(a[1]))

mov_instruction_call ==
    /\ Pending("mov_instruction")
    /\ LET a == Head(todo).args IN Emit(mov_instruction(a[1], a[2]))

binary_instruction_call ==
    /\ Pending("binary_instruction")
    /\ LET a == Head(todo).args IN Emit(binary_instruction(a[1], a[2], a[3], a[4]))

const_instruction_call ==
    /\ Pending("const_instruction")
    /\ LET a == Head(todo).args IN Emit(const_instruction(a[1], a[2]))

not_instruction_call ==
    /\ Pending("not_instruction")
    /\ LET a == Head(todo).args IN Emit(not_instruction(a[1], a[2], a[3]))

foreign_call_instruction_call ==
    /\ Pending("foreign_call_instruction")
    /\ LET a == Head(todo).args IN Emit(foreign_call_instruction(a[1], a[2], a[3]))

load_instruction_call ==
    /\ Pending("load_instruction")
    /\ LET a == Head(todo).args IN Emit(load_instruction(a[1], a[2]))

store_instruction_call ==
    /\ Pending("store_instruction")
    /\ LET a == Head(todo).args IN Emit(store_instruction(a[1], a[2]))

stop_instruction_call ==
    /\ Pending("stop_instruction")
    /\ Emit(stop_instruction)

allocate_array_instruction_call ==
    /\ Pending("allocate_array_instruction")
    /\ LET a == Head(todo).args IN Emit(allocate_array_instruction(a[1], a[2]))

array_get_call ==
    /\ Pending("array_get")
    /\ LET a == Head(todo).args IN Emit(array_get(a[1], a[2], a[3]))

array_set_call ==
    /\ Pending("array_set")
    /\ LET a == Head(todo).args IN Emit(array_set(a[1], a[2], a[3]))

copy_array_instruction_call ==
    /\ Pending("copy_array_instruction")
    /\ LET a == Head(todo).args IN Emit(copy_array_instruction(a[1], a[2], a[3]))

enter_context_call ==
    /\ Pending("enter_context")
    /\ LET a == Head(todo).args IN Emit(enter_context(a[1]))

jump_instruction_call ==
    /\ Pending("jump_instruction")
    /\ LET a == Head(todo).args IN Emit(jump_instruction(a[1]))

jump_if_instruction_call ==
    /\ Pending("jump_if_instruction")
    /\ LET a == Head(todo).args IN Emit(jump_if_instruction(a[1], a[2]))

cast_instruction_call ==
    /\ Pending("cast_instruction")
    /\ LET a == Head(todo).args IN Emit(cast_instruction(a[1], a[2], a[3]))

black_box_op_instruction_call ==
    /\ Pending("black_box_op_instruction")
    /\ LET a == Head(todo).args IN Emit(black_box_op_instruction(a[1]))

add_external_call_instruction_call ==
    /\ Pending("add_external_call_instruction")
    /\ LET a == Head(todo).args IN Emit(add_external_call_instruction(a[1]))

NextTrace ==
    \/ constrain_instruction_call
    \/ return_instruction_call
    \/ mov_instruction_call
    \/ binary_instruction_call
    \/ const_instruction_call
    \/ not_instruction_call
    \/ foreign_call_instruction_call
    \/ load_instruction_call
    \/ store_instruction_call
    \/ stop_instruction_call
    \/ allocate_array_instruction_call
    \/ array_get_call
    \/ array_set_call
    \/ copy_array_instruction_call
    \/ enter_context_call
    \/ jump_instruction_call
    \/ jump_if_instruction_call
    \/ cast_instruction_call
    \/ black_box_op_instruction_call
    \/ add_external_call_instruction_call

(* The parts of the state a specification leaves alone.                    *)
IdleTrace ==
    /\ ENABLE_DEBUG_TRACE = TRUE
    /\ todo = <<>>
    /\ calls = <<>>
    /\ out = <<>>
    /\ panicked = FALSE

IdleOperands == operands = <<>> /\ tokens = <<>>

IdleBinaryOp == binop = [kind |-> "Field", op |-> "Add"] /\ optoken = ""

IdleTests ==
    /\ pc = "idle"
    /\ test_functions = <<>>
    /\ outcomes = <<>>
    /\ next_test = 1
    /\ failing = 0
    /\ ran = <<>>
    /\ writer = <<>>
    /\ result = [kind |-> "none", msg |-> ""]

\* The switch is a constant of the build: either value, fixed for the run.
InitTrace(streams) ==
    /\ ENABLE_DEBUG_TRACE \in BOOLEAN
    /\ todo \in streams
    /\ calls = <<>>
    /\ out = <<>>
    /\ panicked = FALSE
    /\ IdleOperands /\ IdleBinaryOp /\ IdleTests

(* Rendering one BrilligBinaryOp, over every operator and bit size.        *)
RenderBinaryOp ==
    /\ optoken = ""
    /\ optoken' = BrilligBinaryOp_debug_to_string(binop)
    /\ UNCHANGED <<binop, dvars, ovars, tvars>>

InitBinaryOp ==
    /\ binop \in BrilligBinaryOps(BinaryFieldOps, BinaryIntOps, 0..MaxBitSize)
    /\ optoken = ""
    /\ IdleTrace /\ IdleOperands /\ IdleTests

SpecBinaryOp == InitBinaryOp /\ [][RenderBinaryOp]_vars

(* Rendering two operands, over every pair of RegisterOrMemory values.     *)
RenderOperands ==
    /\ tokens = <<>>
    /\ tokens' = <<RegisterOrMemory_debug_to_string(operands[1]),
                   RegisterOrMemory_debug_to_string(operands[2])>>
    /\ UNCHANGED <<operands, dvars, bvars, tvars>>

InitOperands ==
    /\ operands \in RegisterOrMemories(Registers, Sizes) \X RegisterOrMemories(Registers, Sizes)
    /\ tokens = <<>>
    /\ IdleTrace /\ IdleBinaryOp /\ IdleTests

SpecOperands == InitOperands /\ [][RenderOperands]_vars

\* a stream of up to MaxCalls calls
Init == InitTrace(SeqsUpTo(StreamInstructions, MaxCalls))
Spec == Init /\ [][NextTrace]_vars

\* one call, over every operand
InitRender == InitTrace({<<c>> : c \in Instructions})
SpecRender == InitRender /\ [][NextTrace]_vars

----------------------------------------------------------------------------
(* test_cmd.rs: run_tests and run_test.                                    *)
(*                                                                         *)
(* The collaborators are inputs: whether resolve_root_manifest and         *)
(* check_crate_and_report_errors succeed, the test functions that match    *)
(* the name filter, and what compiling and executing each of them does.    *)
(* A write to stdout through println!, a write through .expect(..) and a   *)
(* set_color(..).unwrap() panic when the stream fails; a write followed by *)
(* .ok() does not.                                                         *)

FuncIds == 1..MaxTests
Outcomes == {"passes", "fails to compile", "fails to execute"}

\* context.function_name
function_name(test_function) == "test_" \o to_string(test_function)

Returned(kind, msg) == [kind |-> kind, msg |-> msg]

\* test_cmd.rs:81-106: the result, and the line run_test itself writes
run_test(outcome) ==
    CASE outcome = "fails to compile" -> [result |-> "Err", lines |-> <<>>]
      [] outcome = "fails to execute" -> [result |-> "Err", lines |-> <<"failed">>]
      [] outcome = "passes" -> [result |-> "Ok", lines |-> <<>>]

\* a write whose failure is ignored: the lines arrive or they do not
BestEffort(lines) == IF lines = <<>> THEN {<<>>} ELSE {lines, <<>>}

\* test_cmd.rs:43-51
run_tests_begin ==
    /\ pc = "start"
    /\ \E manifest \in {"Ok", "Err"}, check \in {"Ok", "Err"}, stdout \in {"ok", "failed"} :
           IF manifest = "Err"
           THEN /\ pc' = "returned"
                /\ result' = Returned("Err", "resolve_root_manifest")
           ELSE IF check = "Err"
           THEN /\ pc' = "returned"
                /\ result' = Returned("Err", "check_crate_and_report_errors")
           ELSE IF stdout = "failed"
           THEN /\ pc' = "panicked"
                /\ result' = Returned("panic", "failed printing to stdout")
           ELSE /\ pc' = "loop"
                /\ result' = result
    /\ failing' = 0
    /\ UNCHANGED <<test_functions, outcomes, next_test, ran, writer, dvars, ovars, bvars>>

\* the loop returns at the first failing test
run_tests_iteration_returns_on_failure ==
    /\ pc = "loop"
    /\ next_test <= Len(test_functions)
    /\ LET test_function == test_functions[next_test]
           test == run_test(outcomes[test_function])
       IN  /\ ran' = Append(ran, [test |-> test_function, result |-> test.result])
           /\ writer' = writer \o <<"Testing " \o function_name(test_function) \o "...">>
                               \o test.lines
           /\ IF test.result = "Err"
              THEN /\ pc' = "returned"
                   /\ result' = Returned("Err", "1 test failed")
                   /\ failing' = failing + 1
              ELSE UNCHANGED <<pc, result, failing>>
    /\ next_test' = next_test + 1
    /\ UNCHANGED <<test_functions, outcomes, dvars, ovars, bvars>>

\* test_cmd.rs:53-67: one iteration of the loop
run_tests_iteration ==
    /\ pc = "loop"
    /\ next_test <= Len(test_functions)
    /\ LET test_function == test_functions[next_test]
           test == run_test(outcomes[test_function])
       IN  \E testing \in {"ok", "failed"} :
               IF testing = "failed"
               THEN /\ pc' = "panicked"
                    /\ result' = Returned("panic", "Failed to write to stdout")
                    /\ UNCHANGED <<next_test, failing, ran, writer>>
               ELSE /\ \E lines \in BestEffort(test.lines),
                          ok \in BestEffort(IF test.result = "Ok" THEN <<"ok">> ELSE <<>>) :
                          writer' = writer
                              \o <<"Testing " \o function_name(test_function) \o "...">>
                              \o lines \o ok
                    /\ failing' = IF test.result = "Err" THEN failing + 1 ELSE failing
                    /\ ran' = Append(ran, [test |-> test_function, result |-> test.result])
                    /\ next_test' = next_test + 1
                    /\ UNCHANGED <<pc, result>>
    /\ UNCHANGED <<test_functions, outcomes, dvars, ovars, bvars>>

\* the function returns Ok whatever the counter holds
run_tests_end_always_ok ==
    /\ pc = "loop"
    /\ next_test > Len(test_functions)
    /\ pc' = "returned"
    /\ result' = Returned("Ok", "")
    /\ writer' = writer \o <<"All tests passed">>
    /\ UNCHANGED <<test_functions, outcomes, next_test, failing, ran, dvars, ovars, bvars>>

\* test_cmd.rs:69-78: after the loop
run_tests_end ==
    /\ pc = "loop"
    /\ next_test > Len(test_functions)
    /\ IF failing = 0
       THEN \E set_color \in {"ok", "failed"} :
                IF set_color = "failed"
                THEN /\ pc' = "panicked"
                     /\ result' = Returned("panic", "called Result::unwrap() on an Err value")
                     /\ UNCHANGED writer
                ELSE /\ pc' = "returned"
                     /\ result' = Returned("Ok", "")
                     /\ \E lines \in BestEffort(<<"All tests passed">>) :
                            writer' = writer \o lines
       ELSE LET plural == IF failing = 1 THEN "" ELSE "s"
            IN  /\ pc' = "returned"
                /\ result' = Returned("Err", to_string(failing) \o " test" \o plural \o " failed")
                /\ UNCHANGED writer
    /\ UNCHANGED <<test_functions, outcomes, next_test, failing, ran, dvars, ovars, bvars>>

NextTests ==
    \/ run_tests_begin
    \/ run_tests_iteration
    \/ run_tests_end

\* sequences of distinct test functions
TestLists == {ts \in SeqsUpTo(FuncIds, MaxTests) :
                 \A i \in DOMAIN ts, j \in DOMAIN ts : ts[i] = ts[j] => i = j}

InitTests ==
    /\ pc = "start"
    /\ test_functions \in TestLists
    /\ outcomes \in [FuncIds -> Outcomes]
    /\ next_test = 1
    /\ failing = 0
    /\ ran = <<>>
    /\ writer = <<>>
    /\ result = Returned("none", "")
    /\ IdleTrace /\ IdleOperands /\ IdleBinaryOp

SpecTests == InitTests /\ [][NextTests]_vars

----------------------------------------------------------------------------
(* Vocabulary of the properties.                                           *)

\* the number of places where t occurs in s
Count(s, t) ==
    Cardinality({i \in 1..(Len(s) - Len(t) + 1) : SubSeq(s, i, i + Len(t) - 1) = t})

RECURSIVE Flatten(_)
Flatten(seqs) == IF seqs = <<>> THEN <<>> ELSE Head(seqs) \o Flatten(Tail(seqs))

\* the registers of an operand, in the order they are rendered
OperandRegisters(m) ==
    CASE m.kind = "RegisterIndex" -> <<m.index>>
      [] m.kind = "HeapArray" -> <<m.pointer>>
      [] m.kind = "HeapVector" -> <<m.pointer, m.size>>

BlackBoxRegisters(op) ==
    CASE op.kind \in {"Sha256", "Keccak256", "Blake2s"} ->
            OperandRegisters(op.message) \o OperandRegisters(op.output)
      [] op.kind = "HashToField128Security" ->
            OperandRegisters(op.message) \o <<op.output>>
      [] op.kind = "EcdsaSecp256k1" ->
            OperandRegisters(op.hashed_msg) \o OperandRegisters(op.public_key_x)
                \o OperandRegisters(op.public_key_y) \o OperandRegisters(op.signature)
                \o <<op.result>>

\* every register a call references, position by position
CallRegisters(c) ==
    LET a == c.args
    IN  CASE c.fn \in {"constrain_instruction", "jump_if_instruction", "const_instruction"} ->
                <<a[1]>>
          [] c.fn = "return_instruction" -> a[1]
          [] c.fn \in {"mov_instruction", "load_instruction", "store_instruction",
                       "allocate_array_instruction", "cast_instruction"} -> <<a[1], a[2]>>
          [] c.fn \in {"binary_instruction", "array_get", "array_set",
                       "copy_array_instruction"} -> <<a[1], a[2], a[3]>>
          [] c.fn = "not_instruction" -> <<a[1], a[3]>>
          [] c.fn = "foreign_call_instruction" ->
                Flatten([i \in DOMAIN a[2] |-> OperandRegisters(a[2][i])])
                    \o Flatten([i \in DOMAIN a[3] |-> OperandRegisters(a[3][i])])
          [] c.fn = "black_box_op_instruction" -> BlackBoxRegisters(a[1])
          [] OTHER -> <<>>

Occurrences(regs, r) == Cardinality({i \in DOMAIN regs : regs[i] = r})

\* the lines of a call that reached the trace stream
Printed(entry) == IF entry.write = "ok" THEN entry.text ELSE <<>>

EnterContext(label) == Call("enter_context", <<label>>)

FunctionLabel(label) == SubSeq(label, 1, Len(label) - 3)

----------------------------------------------------------------------------
(* C1.  With tracing enabled, enter_context with a label ending in "-b0",  *)
(* when the call just before it was not enter_context for the function     *)
(* name (the label without "-b0"), hands one header line, "<label>:", to   *)
(* the trace stream.                                                       *)
C1_B0HeaderAloneIsPrinted ==
    \A i \in DOMAIN calls :
        LET c == calls[i].call
        IN  ( /\ ENABLE_DEBUG_TRACE
              /\ c.fn = "enter_context"
              /\ ends_with(c.args[1], "-b0")
              /\ ~(i > 1 /\ calls[i - 1].call = EnterContext(FunctionLabel(c.args[1]))) )
            => calls[i].text = <<c.args[1] \o ":">>

(* C2.  With tracing enabled, enter_context(X) for a label X not ending in *)
(* "-b0", immediately followed by enter_context(X-b0), prints exactly one  *)
(* header line in total, "X:".                                             *)
C2_HeaderThenB0PrintsOnce ==
    \A i \in DOMAIN calls :
        ( /\ ENABLE_DEBUG_TRACE
          /\ i < Len(calls)
          /\ calls[i].call.fn = "enter_context"
          /\ ~ends_with(calls[i].call.args[1], "-b0")
          /\ calls[i + 1].call = EnterContext(calls[i].call.args[1] \o "-b0") )
        => Printed(calls[i]) \o Printed(calls[i + 1]) = <<calls[i].call.args[1] \o ":">>

C2_Witness ==
    /\ ENABLE_DEBUG_TRACE
    /\ Len(calls) = 2
    /\ calls[1].call = EnterContext("f1")
    /\ calls[2].call = EnterContext("f1-b0")
    /\ out = <<"f1:">>

(* C3.  With the debug-trace switch disabled, a disassembler call prints   *)
(* nothing and constructs no string.                                       *)
C3_DisabledDoesNoWork ==
    ~ENABLE_DEBUG_TRACE =>
        /\ out = <<>>
        /\ \A i \in DOMAIN calls : calls[i].text = <<>> /\ calls[i].strings = 0

(* C4.  A failed write to the trace stream is swallowed: the call returns  *)
(* and the process goes on; no panic follows from it.                      *)
C4_FailedWriteIsSwallowed ==
    \A i \in DOMAIN calls : calls[i].write = "failed" => ~panicked

(* C5.  An Integer op renders as "i<bit_size>::<op>" and a Modulo op as    *)
(* "<op>:<bit_size>" when bit_size is below the addressing bit size, and   *)
(* as the bare operator token when it is at or above it; a Field op never  *)
(* carries a width.                                                        *)
C5_WidthTagBelowAddressingSize ==
    optoken # "" =>
        CASE binop.kind = "Field" ->
                /\ optoken = BinaryFieldOp_debug_to_string(binop.op)
                /\ \A d \in 0..9 : Count(optoken, to_string(d)) = 0
          [] binop.kind = "Integer" ->
                IF binop.bit_size < BRILLIG_MEMORY_ADDRESSING_BIT_SIZE
                THEN optoken = "i" \o to_string(binop.bit_size) \o "::"
                                   \o BinaryIntOp_debug_to_string(binop.op)
                ELSE optoken = BinaryIntOp_debug_to_string(binop.op)
          [] binop.kind = "Modulo" ->
                LET op == IF binop.is_signed_integer THEN "%" ELSE "%%"
                IN  IF binop.bit_size < BRILLIG_MEMORY_ADDRESSING_BIT_SIZE
                    THEN optoken = op \o ":" \o to_string(binop.bit_size)
                    ELSE optoken = op

C5_Witness ==
    /\ binop = [kind |-> "Integer", op |-> "UnsignedDiv",
                bit_size |-> BRILLIG_MEMORY_ADDRESSING_BIT_SIZE]
    /\ optoken = "//"

(* C6.  Every operand has a rendering token, and two distinct operands     *)
(* never render to the same token.                                         *)
C6_OperandRenderingInjective ==
    tokens # <<>> =>
        /\ Len(tokens[1]) > 0 /\ Len(tokens[2]) > 0
        /\ tokens[1] = tokens[2] => operands[1] = operands[2]

C6_Witness ==
    /\ tokens # <<>>
    /\ operands[1] = [kind |-> "HeapArray", pointer |-> 1, size |-> 1]
    /\ operands[2] = [kind |-> "HeapVector", pointer |-> 1, size |-> 1]
    /\ tokens = <<"R1[0..1]", "R1[0..R1]">>

C8_StackPointerRendersAsStack ==
    \A i \in DOMAIN calls :
        calls[i].text # <<>> =>
            LET line == calls[i].text[1]
                regs == CallRegisters(calls[i].call)
            IN  /\ Count(line, "Stack") = Occurrences(regs, stack_pointer)
                /\ \A r \in Registers :
                       Count(line, "R" \o to_string(r)) =
                           IF r = stack_pointer THEN 0 ELSE Occurrences(regs, r)

C8_Witness ==
    /\ Len(calls) = 1
    /\ calls[1].call = Call("return_instruction", <<<<1, stack_pointer>>>>)
    /\ calls[1].text = <<"  // return R1, Stack;">>

----------------------------------------------------------------------------
\* run_tests got past resolve_root_manifest and check_crate_and_report_errors
CrateChecked ==
    /\ pc # "start"
    /\ result.msg \notin {"resolve_root_manifest", "check_crate_and_report_errors"}

Failed(test_function) == outcomes[test_function] # "passes"

FailedSoFar == Cardinality({i \in DOMAIN ran : ran[i].result = "Err"})

(* C9.  Once the crate is checked, run_tests returns Err when a matching   *)
(* test function fails to compile or to execute, and Ok only when none     *)
(* does, zero matching test functions included.                            *)
C9_ErrIffSomeTestFails ==
    /\ (pc = "returned" /\ CrateChecked) =>
           /\ result.kind \in {"Ok", "Err"}
           /\ result.kind = "Err" <=> \E i \in DOMAIN test_functions : Failed(test_functions[i])
    /\ result.kind = "Ok" =>
           /\ pc = "returned"
           /\ \A i \in DOMAIN test_functions : ~Failed(test_functions[i])

C9_Witness ==
    /\ pc = "returned"
    /\ Len(test_functions) = 2
    /\ outcomes[test_functions[1]] = "fails to compile"
    /\ outcomes[test_functions[2]] = "passes"
    /\ result = Returned("Err", "1 test failed")

(* C10.  The loop runs every matching test function once, in order,        *)
(* whatever the earlier ones did; the failing counter is the number of     *)
(* tests run so far whose run_test returned an error; the count of the     *)
(* final error is the number of failed tests.                              *)
C10_LoopRunsEveryTest ==
    /\ Len(ran) <= Len(test_functions)
    /\ \A i \in DOMAIN ran :
           /\ ran[i].test = test_functions[i]
           /\ ran[i].result = run_test(outcomes[test_functions[i]]).result
    /\ CrateChecked => failing = FailedSoFar
    /\ (pc = "returned" /\ CrateChecked) =>
           /\ Len(ran) = Len(test_functions)
           /\ result.kind = "Err" =>
                  result.msg = to_string(FailedSoFar) \o " test"
                                   \o (IF FailedSoFar = 1 THEN "" ELSE "s") \o " failed"

C10_Witness ==
    /\ pc = "returned"
    /\ Len(ran) = 3
    /\ ran[1].result = "Err"
    /\ ran[2].result = "Ok"
    /\ ran[3].result = "Err"
    /\ result = Returned("Err", "2 tests failed")

====
